---- MODULE Spec2Model ----
(***************************************************************************)
(* Model of scraper.py (linkedin-job-tracker): one run of main() is the    *)
(* sequence load_existing_job_ids -> scrape_jobs -> deduplication ->       *)
(* generate_comments -> save_to_csv -> generate_email_html -> flag, and    *)
(* the persisted files (jobs.csv, email_body.html, has_new_jobs.txt)       *)
(* carry over from one run to the next.                                    *)
(*                                                                         *)
(* Text that the program inspects character by character (the comment of   *)
(* a posting) is a sequence of one-character strings.                      *)
(***************************************************************************)
EXTENDS Integers, Sequences, FiniteSets, TLC

\* ------------------------------------------------------------------ bounds
MaxRuns == 2
MaxCards == 2
MaxRecords == 2
MaxMeta == 2

\* ------------------------------------------------------------ text helpers
UpperLetters == <<"A","B","C","D","E","F","G","H","I","J","K","L","M","N","O","P","Q","R","S","T","U","V","W","X","Y","Z">>
LowerLetters == <<"a","b","c","d","e","f","g","h","i","j","k","l","m","n","o","p","q","r","s","t","u","v","w","x","y","z">>

lower_char(c) ==
    IF \E k \in 1..26 : UpperLetters[k] = c
    THEN LowerLetters[CHOOSE k \in 1..26 : UpperLetters[k] = c]
    ELSE c

upper_char(c) ==
    IF \E k \in 1..26 : LowerLetters[k] = c
    THEN UpperLetters[CHOOSE k \in 1..26 : LowerLetters[k] = c]
    ELSE c

\* str.lower()
lower(s) == [k \in 1..Len(s) |-> lower_char(s[k])]

\* str.capitalize(): first character upper case, the rest lower case
capitalize(s) == [k \in 1..Len(s) |-> IF k = 1 THEN upper_char(s[k]) ELSE lower_char(s[k])]

\* p occurs in s starting at index i
starts_at(s, p, i) ==
    /\ i >= 1
    /\ i + Len(p) - 1 <= Len(s)
    /\ \A k \in 1..Len(p) : s[i + k - 1] = p[k]

\* Python's `p in s` for a non-empty p
contains(s, p) == \E i \in 1..Len(s) : starts_at(s, p, i)

\* the characters the regular expression class \s matches
IsSpace(c) == c \in {" ", "\n", "\t", "\r"}

\* greedy \s* from index i: the index of the first non-space character
skip_space(s, i) ==
    CHOOSE j \in i..(Len(s) + 1) :
        /\ \A k \in i..(j - 1) : IsSpace(s[k])
        /\ (j = Len(s) + 1 \/ ~IsSpace(s[j]))

\* ---------------------------------------------------------------- literals
STR_Unknown == <<"U","n","k","n","o","w","n">>
STR_High == <<"H","i","g","h">>
STR_Medium == <<"M","e","d","i","u","m">>
STR_Low == <<"L","o","w">>
STR_RatingPrefix == <<"R","a","t","i","n","g",":"," ">>
STR_RatingAnchor == <<"r","a","t","i","n","g",":">>
STR_Newline == <<"\n">>
STR_BulletMarker == <<"-"," ">>
STR_NoAnalysis == <<"R","a","t","i","n","g",":"," ","U","n","k","n","o","w","n","\n","-"," ","N","o"," ","a","n","a","l","y","s","i","s"," ","r","e","t","u","r","n","e","d">>
STR_ParseError == <<"E","r","r","o","r",":"," ","f","a","i","l","e","d"," ","t","o"," ","p","a","r","s","e"," ","G","e","m","i","n","i"," ","r","e","s","p","o","n","s","e">>
STR_ApiError == <<"E","r","r","o","r"," ","g","e","n","e","r","a","t","i","n","g"," ","c","o","m","m","e","n","t">>
STR_PlaceholderBullet == <<"N","o"," ","a","n","a","l","y","s","i","s"," ","r","e","t","u","r","n","e","d">>

\* the ratings the response is asked to use, and the four of the data model
RatingWords == <<STR_High, STR_Medium, STR_Low>>
Ratings == {STR_High, STR_Medium, STR_Low, STR_Unknown}

\* ------------------------------------------------------------ extract_rating
NoMatch == <<>>

\* re.match of  Rating:\s*(High|Medium|Low)  (IGNORECASE) at index i of
\* comment, whose lower-cased form is lc: the captured group, or NoMatch
rating_match_at(comment, lc, i) ==
    IF ~starts_at(lc, STR_RatingAnchor, i) THEN NoMatch
    ELSE LET j == skip_space(lc, i + Len(STR_RatingAnchor)) IN
         IF starts_at(lc, lower(STR_High), j) THEN SubSeq(comment, j, j + 3)
         ELSE IF starts_at(lc, lower(STR_Medium), j) THEN SubSeq(comment, j, j + 5)
         ELSE IF starts_at(lc, lower(STR_Low), j) THEN SubSeq(comment, j, j + 2)
         ELSE NoMatch

\* the fallback loop: the first of High, Medium, Low whose lower-cased word
\* occurs anywhere in the lower-cased comment
rating_word_anywhere(lc) ==
    LET found == {k \in 1..Len(RatingWords) : contains(lc, lower(RatingWords[k]))}
    IN IF found = {} THEN STR_Unknown
       ELSE RatingWords[CHOOSE k \in found : \A m \in found : k <= m]

extract_rating(comment) ==
    LET lc == lower(comment)
        hits == {i \in 1..Len(comment) : rating_match_at(comment, lc, i) # NoMatch}
    IN IF hits # {}
       THEN capitalize(rating_match_at(comment, lc, CHOOSE i \in hits : \A m \in hits : i <= m))
       ELSE rating_word_anywhere(lc)

\* ------------------------------------------------------- comment synthesis
RECURSIVE join_bullets(_)
\* "\n".join(f"- {b}" for b in bullets)
join_bullets(bullets) ==
    IF bullets = <<>> THEN <<>>
    ELSE IF Len(bullets) = 1 THEN STR_BulletMarker \o bullets[1]
    ELSE STR_BulletMarker \o bullets[1] \o STR_Newline \o join_bullets(Tail(bullets))

\* f"Rating: {rating}\n{bullet_text}"
synthesize(rating, bullets) ==
    STR_RatingPrefix \o rating \o STR_Newline \o join_bullets(bullets)

\* ------------------------------------------------- regular expressions
\* A pattern is a sequence of nodes: a literal word, a character class with
\* a greedy repetition range, a group (capturing when cap > 0, optional when opt), and
\* the open/close marks a group leaves while it is being matched.
Digits == {"0","1","2","3","4","5","6","7","8","9"}
Spaces == {" ", "\n", "\t", "\r"}
EnDash == "ndash"

Cls(set, min, max) == [t |-> "cls", set |-> set, min |-> min, max |-> max]
\* one or more / zero or more of a class (max < 0: no upper limit)
Many(set, min) == Cls(set, min, -1)
Lit(c) == Cls({c}, 1, 1)
Str(word) == [t |-> "str", word |-> word]
Opt(c) == Cls({c}, 0, 1)
Grp(cap, opt, body) == [t |-> "grp", cap |-> cap, opt |-> opt, body |-> body]
Mark(t, cap) == [t |-> t, cap |-> cap]

NoCaps == [n \in 1..2 |-> <<0, 0>>]
NoResult == [ok |-> FALSE, end |-> 0, caps |-> NoCaps]

Max(S) == CHOOSE x \in S : \A y \in S : y <= x
Min(S) == CHOOSE x \in S : \A y \in S : x <= y

\* a pattern laid out flat: a group becomes an "open" node, its body and a
\* "close" node; skip is the distance from the open node past the close node
RECURSIVE Flatten(_)
Flatten(nodes) ==
    IF nodes = <<>> THEN <<>>
    ELSE LET node == Head(nodes) IN
         (IF node.t = "grp"
          THEN LET body == Flatten(node.body) IN
               <<[t |-> "open", cap |-> node.cap, opt |-> node.opt, skip |-> Len(body) + 2]>>
               \o body \o <<[t |-> "close", cap |-> node.cap]>>
          ELSE <<node>>)
         \o Flatten(Tail(nodes))

\* how many characters of text from pos on belong to set, at most max
RECURSIVE run_length(_, _, _, _)
run_length(text, pos, set, max) ==
    IF max = 0 \/ pos > Len(text) THEN 0
    ELSE IF text[pos] \in set THEN 1 + run_length(text, pos + 1, set, max - 1)
    ELSE 0

\* the backtracking matcher of re: the first way, in the engine's order of
\* preference, to match the nodes of pat from the k-th on at pos of text
RECURSIVE re_match(_, _, _, _, _)

\* a greedy repetition: the k-th node taking n characters, then fewer, down to
\* its minimum, until the rest of the pattern matches
RECURSIVE re_repeat(_, _, _, _, _, _)
re_repeat(pat, k, text, pos, caps, n) ==
    IF n < pat[k].min THEN NoResult
    ELSE LET rest == re_match(pat, k + 1, text, pos + n, caps) IN
         IF rest.ok THEN rest ELSE re_repeat(pat, k, text, pos, caps, n - 1)

re_match(pat, k, text, pos, caps) ==
    IF k > Len(pat) THEN [ok |-> TRUE, end |-> pos, caps |-> caps]
    ELSE LET node == pat[k] IN
         IF node.t = "str"
         THEN IF starts_at(text, node.word, pos)
              THEN re_match(pat, k + 1, text, pos + Len(node.word), caps)
              ELSE NoResult
         ELSE IF node.t = "cls"
         THEN re_repeat(pat, k, text, pos, caps, run_length(text, pos, node.set, node.max))
         ELSE IF node.t = "open"
         THEN LET opened == IF node.cap > 0 THEN [caps EXCEPT ![node.cap] = <<pos, 0>>] ELSE caps
                  taken == re_match(pat, k + 1, text, pos, opened)
              IN IF taken.ok \/ ~node.opt THEN taken
                 ELSE re_match(pat, k + node.skip, text, pos, caps)
         ELSE re_match(pat, k + 1, text, pos,
                       IF node.cap > 0
                       THEN [caps EXCEPT ![node.cap] = <<caps[node.cap][1], pos>>]
                       ELSE caps)

\* re.search: the match at the leftmost position that has one; with
\* IGNORECASE (ic) the lower-cased text is matched against a lower-case pattern
RECURSIVE re_search_from(_, _, _)
re_search_from(pat, cmp, p) ==
    IF p > Len(cmp) + 1 THEN [ok |-> FALSE, start |-> 0, end |-> 0, caps |-> NoCaps]
    ELSE LET m == re_match(pat, 1, cmp, p, NoCaps) IN
         IF m.ok THEN [ok |-> TRUE, start |-> p, end |-> m.end, caps |-> m.caps]
         ELSE re_search_from(pat, cmp, p + 1)

re_search(pat, text, ic) == re_search_from(pat, IF ic THEN lower(text) ELSE text, 1)

\* match.group(n), defined when the group took part in the match
group_set(m, n) == m.caps[n][2] > 0
group_text(text, m, n) == SubSeq(text, m.caps[n][1], m.caps[n][2] - 1)

\* ---------------------------------------------------------- parse_experience
RE_Years == <<Str(<<"y","e","a","r">>), Opt("s")>>
RE_ExperienceTail ==
    <<Many(Spaces, 1),
      Grp(0, TRUE, <<Str(<<"o","f">>), Many(Spaces, 1)>>),
      Grp(0, TRUE, <<Str(<<"r","e","l","e","v","a","n","t">>), Many(Spaces, 1)>>),
      Grp(0, TRUE, <<Str(<<"p","r","o","f","e","s","s","i","o","n","a","l">>), Many(Spaces, 1)>>),
      Str(<<"e","x","p","e","r","i","e","n","c","e">>)>>
RE_Number(cap, opt) == Grp(cap, opt, <<Many(Digits, 1)>>)
RE_Dash == {"-", EnDash}

ExperiencePatternNodes ==
    << <<RE_Number(1, FALSE), Opt("+"), Many(Spaces, 0), Cls(RE_Dash, 0, 1),
         Many(Spaces, 0), RE_Number(2, TRUE), Opt("+"), Many(Spaces, 0)>>
         \o RE_Years \o RE_ExperienceTail,
       <<RE_Number(1, FALSE), Opt("+"), Many(Spaces, 0)>> \o RE_Years \o RE_ExperienceTail,
       <<RE_Number(1, FALSE), Many(Spaces, 0), Cls(RE_Dash, 1, 1),
         Many(Spaces, 0), RE_Number(2, FALSE), Many(Spaces, 0)>> \o RE_Years,
       <<RE_Number(1, FALSE), Lit("+"), Many(Spaces, 0)>> \o RE_Years,
       <<Str(<<"m","i","n","i","m","u","m">>), Many(Spaces, 1),
         Grp(0, TRUE, <<Str(<<"o","f">>), Many(Spaces, 1)>>),
         RE_Number(1, FALSE), Many(Spaces, 0)>> \o RE_Years,
       <<Str(<<"a","t">>), Many(Spaces, 1), Str(<<"l","e","a","s","t">>),
         Many(Spaces, 1), RE_Number(1, FALSE), Many(Spaces, 0)>> \o RE_Years >>

ExperiencePatterns == [k \in 1..Len(ExperiencePatternNodes) |-> Flatten(ExperiencePatternNodes[k])]

STR_Years == <<" ","y","e","a","r","s">>
STR_NotSpecified == <<"N","o","t"," ","s","p","e","c","i","f","i","e","d">>
STR_NotListed == <<"N","o","t"," ","l","i","s","t","e","d">>

\* the result for the match m of one pattern
experience_result(text, m) ==
    IF group_set(m, 1) /\ group_set(m, 2)
    THEN group_text(text, m, 1) \o <<"-">> \o group_text(text, m, 2) \o STR_Years
    ELSE group_text(text, m, 1) \o <<"+">> \o STR_Years

parse_experience(text) ==
    LET matching == {k \in 1..Len(ExperiencePatterns) : re_search(ExperiencePatterns[k], text, TRUE).ok} IN
    IF matching = {} THEN STR_NotSpecified
    ELSE experience_result(text, re_search(ExperiencePatterns[Min(matching)], text, TRUE))

\* -------------------------------------------------------------- parse_salary
RE_Amount ==
    <<Lit("$"), Many(Digits \cup {","}, 1), Opt("."), Many(Digits, 0),
      Cls({"K", "k"}, 0, 1), Grp(0, TRUE, <<Str(<<"/","y","r">>)>>)>>

salary_pattern_nodes ==
    RE_Amount \o
    <<Grp(0, TRUE, <<Many(Spaces, 0), Many({"-", EnDash, "t", "o"}, 1),
                     Many(Spaces, 0)>> \o RE_Amount)>>

salary_pattern == Flatten(salary_pattern_nodes)

salary_match(text) ==
    LET m == re_search(salary_pattern, text, FALSE) IN SubSeq(text, m.start, m.end - 1)

salary_found(text) == re_search(salary_pattern, text, FALSE).ok

\* parse_salary searching the description before the card metadata
parse_salary_description_first(card_meta, description) ==
    LET matching == {k \in 1..Len(card_meta) : salary_found(card_meta[k])} IN
    IF salary_found(description) THEN salary_match(description)
    ELSE IF matching # {} THEN salary_match(card_meta[Min(matching)])
    ELSE STR_NotListed

parse_salary(card_meta, description) ==
    LET matching == {k \in 1..Len(card_meta) : salary_found(card_meta[k])} IN
    IF matching # {} THEN salary_match(card_meta[Min(matching)])
    ELSE IF salary_found(description) THEN salary_match(description)
    ELSE STR_NotListed

\* ------------------------------------------------------------------ postings
\* every field of a posting is a text: a sequence of strings
Ids == {<<"1","0","0">>, <<"2","0","0">>}

NoComment == <<"<no comment>">>
NoText == <<>>

\* the text shown for posting id in the page (title, company, first <li>,
\* detail panel)
TitleOf(id) == <<"title ">> \o id
CompanyOf(id) == <<"company ">> \o id
LocationOf(id) == <<"location ">> \o id
DescriptionOf(id) == <<"description ">> \o id

\* f"https://www.linkedin.com/jobs/view/{job_id}/"
job_url(id) == <<"https://www.linkedin.com/jobs/view/">> \o id \o <<"/">>

\* ------------------------------------------------- the rating service reply
MissingRating == <<"<missing>">>
MissingBullets == <<<<"<missing>">>>>
NullBullets == <<<<"<null>">>>>
MissingId == <<"<missing>">>

STR_BulletGap == <<"N","o"," ","g","a","p">>
STR_BulletFollows == <<"F","o","l","l","o","w","s"," ","u","p">>
STR_BulletHighly == <<"H","i","g","h","l","y"," ","f","i","t">>

\* re.sub of the opening and the closing code fence when the text starts
\* with a fence
strip_fences(text) ==
    IF text.fence_open
    THEN [text EXCEPT !.fence_open = FALSE, !.fence_close = FALSE]
    ELSE text

\* json.loads raises JSONDecodeError on anything that is not one JSON value
json_loads_raises(text) ==
    text.fence_open \/ text.fence_close \/ text.shape = "garbage"

\* results_map.get as it would be if the first record of a key were kept
results_map_get_first(items, id) ==
    LET hits == {k \in 1..Len(items) : items[k].job_id = id} IN
    items[CHOOSE k \in hits : \A m \in hits : k <= m]

\* results_map.get(id): the dict comprehension keeps the last record of a key
results_map_get(items, id) ==
    LET hits == {k \in 1..Len(items) : items[k].job_id = id} IN
    items[CHOOSE k \in hits : \A m \in hits : m <= k]

results_map_has(items, id) == \E k \in 1..Len(items) : items[k].job_id = id

\* the comment of one posting in the mapping loop
comment_for(items, id) ==
    IF results_map_has(items, id)
    THEN LET result == results_map_get(items, id)
             rating == IF result.rating = MissingRating THEN STR_Unknown ELSE result.rating
             bullets == IF result.bullets = MissingBullets THEN <<>> ELSE result.bullets
         IN synthesize(rating, bullets)
    ELSE STR_NoAnalysis

set_comments(jobs, c) == [k \in 1..Len(jobs) |-> [jobs[k] EXCEPT !.comment = c]]

\* the body of the try block: which exception it ends with, and the postings
generate_comments_try(jobs, resp) ==
    IF resp.kind = "api_error" THEN [exc |-> "Exception", jobs |-> jobs]
    ELSE LET raw_text == strip_fences(resp) IN
         IF json_loads_raises(raw_text) THEN [exc |-> "JSONDecodeError", jobs |-> jobs]
         ELSE IF raw_text.shape \in {"scalar", "object"}
              THEN [exc |-> "Exception", jobs |-> jobs]
         ELSE IF \E k \in 1..Len(raw_text.items) : raw_text.items[k].job_id = MissingId
              THEN [exc |-> "Exception", jobs |-> jobs]
         ELSE IF \E k \in 1..Len(jobs) :
                     /\ results_map_has(raw_text.items, jobs[k].job_id)
                     /\ results_map_get(raw_text.items, jobs[k].job_id).bullets = NullBullets
              THEN [exc |-> "Exception", jobs |-> jobs]
         ELSE [exc |-> "none",
               jobs |-> [k \in 1..Len(jobs) |->
                           [jobs[k] EXCEPT !.comment = comment_for(raw_text.items, jobs[k].job_id)]]]

\* generate_comments without the handler of Exception
generate_comments_unhandled(jobs, resp) ==
    LET body == generate_comments_try(jobs, resp) IN
    IF body.exc = "none" THEN [raised |-> FALSE, jobs |-> body.jobs]
    ELSE IF body.exc = "JSONDecodeError"
         THEN [raised |-> FALSE, jobs |-> set_comments(jobs, STR_ParseError)]
    ELSE [raised |-> TRUE, jobs |-> jobs]

\* generate_comments whose JSONDecodeError handler only logs
generate_comments_nofallback(jobs, resp) ==
    LET body == generate_comments_try(jobs, resp) IN
    IF body.exc = "none" THEN [raised |-> FALSE, jobs |-> body.jobs]
    ELSE IF body.exc = "JSONDecodeError"
         THEN [raised |-> FALSE, jobs |-> jobs]
    ELSE [raised |-> FALSE, jobs |-> set_comments(jobs, STR_ApiError)]

\* generate_comments: the try block and its two handlers; raised is TRUE when
\* an exception leaves the function
generate_comments(jobs, resp) ==
    LET body == generate_comments_try(jobs, resp) IN
    IF body.exc = "none" THEN [raised |-> FALSE, jobs |-> body.jobs]
    ELSE IF body.exc = "JSONDecodeError"
         THEN [raised |-> FALSE, jobs |-> set_comments(jobs, STR_ParseError)]
    ELSE IF body.exc = "Exception"
         THEN [raised |-> FALSE, jobs |-> set_comments(jobs, STR_ApiError)]
    ELSE [raised |-> TRUE, jobs |-> jobs]

\* ------------------------------------------------------------- jobs.csv
CSV_HEADERS == << <<"timestamp">>, <<"job_id">>, <<"job_title">>, <<"company">>,
                 <<"location">>, <<"experience_years">>, <<"salary">>,
                 <<"comment">>, <<"job_url">> >>

NoFile == [exists |-> FALSE, lines |-> <<>>]

\* datetime.now(timezone.utc).strftime(...) in run number t
timestamp_of(t) == <<"run ", ToString(t)>>

\* the line DictWriter.writerow writes for one posting
csv_row(job, ts) ==
    << ts, job.job_id, job.job_title, job.company, job.location,
       job.experience_years, job.salary, job.comment, job.job_url >>

\* save_to_csv writing the header on every call
save_to_csv_header_always(file, jobs, ts) ==
    [exists |-> TRUE,
     lines |-> file.lines \o <<CSV_HEADERS>> \o [k \in 1..Len(jobs) |-> csv_row(jobs[k], ts)]]

\* save_to_csv: open in append mode, the header only when the file is new
save_to_csv(file, jobs, ts) ==
    [exists |-> TRUE,
     lines |-> file.lines
               \o (IF file.exists THEN <<>> ELSE <<CSV_HEADERS>>)
               \o [k \in 1..Len(jobs) |-> csv_row(jobs[k], ts)]]

\* load_existing_job_ids missing the last line of the file
load_existing_job_ids_skiplast(file) ==
    IF ~file.exists \/ file.lines = <<>> THEN {}
    ELSE {file.lines[k][2] : k \in 2..(Len(file.lines) - 1)}

\* load_existing_job_ids: DictReader takes the first line as the field
\* names and yields one dict per further line
load_existing_job_ids(file) ==
    IF ~file.exists \/ file.lines = <<>> THEN {}
    ELSE LET fieldnames == file.lines[1]
             cols == {c \in 1..Len(fieldnames) : fieldnames[c] = <<"job_id">>}
         IN IF cols = {} THEN {}
            ELSE LET col == CHOOSE c \in cols : \A d \in cols : d <= c IN
                 {file.lines[k][col] : k \in 2..Len(file.lines)}

\* ------------------------------------------------------------ the report
\* generate_email_html: the count, and per posting the link, the title, the
\* company and the rating cell; the notice when the list is empty
generate_email_html(jobs) ==
    [count |-> Len(jobs),
     body |-> IF jobs = <<>> THEN "notice" ELSE "table",
     rows |-> [k \in 1..Len(jobs) |->
                 [job_url |-> jobs[k].job_url,
                  job_title |-> jobs[k].job_title,
                  company |-> jobs[k].company,
                  rating |-> extract_rating(jobs[k].comment)]]]

NoReport == [count |-> 0, body |-> "absent", rows |-> <<>>]

\* ------------------------------------------------------ deduplication
RECURSIVE filter_new_reversed(_, _)
\* the filter building its result back to front
filter_new_reversed(postings, seen) ==
    IF postings = <<>> THEN <<>>
    ELSE IF Head(postings).job_id \in seen
         THEN filter_new_reversed(Tail(postings), seen)
         ELSE filter_new_reversed(Tail(postings), seen) \o <<Head(postings)>>

RECURSIVE filter_new(_, _)
\* [j for j in all_jobs if j["job_id"] not in existing_ids]
filter_new(postings, seen) ==
    IF postings = <<>> THEN <<>>
    ELSE IF Head(postings).job_id \in seen
         THEN filter_new(Tail(postings), seen)
         ELSE <<Head(postings)>> \o filter_new(Tail(postings), seen)

RECURSIVE valid_jobs(_)
\* [j for j in jobs if j["job_title"] != "Unknown" or j["description"]]
valid_jobs(js) ==
    IF js = <<>> THEN <<>>
    ELSE IF Head(js).job_title # <<"Unknown">> \/ Head(js).description # NoText
         THEN <<Head(js)>> \o valid_jobs(Tail(js))
         ELSE valid_jobs(Tail(js))

\* ------------------------------------------------------------ input sets
RECURSIVE SeqsUpTo(_, _)
\* the sequences over S of length at most n
SeqsUpTo(S, n) ==
    IF n = 0 THEN {<<>>}
    ELSE LET shorter == SeqsUpTo(S, n - 1) IN
         shorter \cup {Append(q, x) : q \in {r \in shorter : Len(r) = n - 1}, x \in S}

\* what the page does while card k of the search results is processed:
\* fail is the step of the try block that raises ("none": no step does;
\* "no_card": the card is not found and the loop continues)
FailSteps == {"none", "no_card", "query", "company", "meta", "detail"}
CardOutcomes ==
    [fail : FailSteps, title_el : BOOLEAN, company_el : BOOLEAN, meta_n : 0..1,
     desc : BOOLEAN, sal_detail : BOOLEAN]

\* the replies of the rating service
BulletLists == {<<STR_BulletGap, STR_BulletGap, STR_BulletGap>>,
                <<STR_BulletFollows, STR_BulletGap, STR_BulletHighly>>}
\* a record without job_id fails the whole reply whatever else it holds
Records ==
    [job_id : Ids,
     rating : {STR_High, STR_Medium, STR_Low, MissingRating},
     bullets : BulletLists \cup {MissingBullets, NullBullets}]
    \cup [job_id : {MissingId}, rating : {STR_High}, bullets : {MissingBullets}]

ApiError == [kind |-> "api_error", fence_open |-> FALSE, fence_close |-> FALSE,
             shape |-> "garbage", items |-> <<>>]

\* text replies: every fence combination around a reply of at most one
\* record, and unfenced lists of up to maxRecords records
TextReplies(maxRecords) ==
    [kind : {"text"}, fence_open : BOOLEAN, fence_close : BOOLEAN,
     shape : {"garbage", "scalar", "object"}, items : {<<>>}]
    \cup [kind : {"text"}, fence_open : BOOLEAN, fence_close : BOOLEAN,
          shape : {"list"}, items : SeqsUpTo(Records, 1)]
    \cup [kind : {"text"}, fence_open : {FALSE}, fence_close : {FALSE},
          shape : {"list"}, items : SeqsUpTo(Records, maxRecords)]
Responses(maxRecords) == {ApiError} \cup TextReplies(maxRecords)

\* the outcomes and replies the runs of main() are explored with: a card
\* that is scraped whole, one that is not found; a failing call, an unparseable reply, and a list of at
\* most one record
MainOutcomes ==
    [fail : {"none", "no_card"}, title_el : {TRUE}, company_el : {TRUE},
     meta_n : {1}, desc : {TRUE}, sal_detail : {FALSE}]
MainRecords ==
    [job_id : Ids, rating : {STR_High},
     bullets : {<<STR_BulletFollows, STR_BulletGap, STR_BulletHighly>>}]
MainResponses ==
    {ApiError}
    \cup [kind : {"text"}, fence_open : {FALSE}, fence_close : {FALSE},
          shape : {"garbage"}, items : {<<>>}]
    \cup [kind : {"text"}, fence_open : {FALSE}, fence_close : {FALSE},
          shape : {"list"}, items : SeqsUpTo(MainRecords, 1)]

\* ------------------------------------------------------------------- state
VARIABLES
    csv,            \* jobs.csv: [exists, lines]
    email_html,     \* email_body.html
    has_new_jobs,   \* has_new_jobs.txt: "absent", "true" or "false"
    pc,             \* where main() is
    clock,          \* the number of runs started
    existing_ids,   \* main: existing_ids
    all_jobs,       \* main: all_jobs
    new_jobs,       \* main: new_jobs
    response,       \* the reply generate_comments got
    job_ids,        \* scrape_jobs: job_ids
    i,              \* scrape_jobs: the loop index
    jobs,           \* scrape_jobs: jobs
    title,          \* scrape_jobs: the loop's locals, Unbound until assigned
    company,
    location,
    card_meta,
    prev_scraped,   \* history: the ids in all_jobs of the latest run that finished
    job_details,    \* the description handed to parse_salary and parse_experience
    salary,         \* what parse_salary returned, Unbound until it ran
    experience      \* what parse_experience returned, Unbound until it ran

vars == <<csv, email_html, has_new_jobs, pc, clock, existing_ids, all_jobs, new_jobs,
          response, job_ids, i, jobs, title, company, location, card_meta, prev_scraped,
          job_details, salary, experience>>

files == <<csv, email_html, has_new_jobs>>
scrape_locals == <<job_ids, i, jobs, title, company, location, card_meta>>
extract_io == <<job_details, salary, experience>>

Unbound == <<"<unbound>">>
UnboundMeta == <<Unbound>>
NoRun == {<<"<no run>">>}
ids_of(postings) == {postings[k].job_id : k \in 1..Len(postings)}
NoResponse == [kind |-> "none", fence_open |-> FALSE, fence_close |-> FALSE,
               shape |-> "garbage", items |-> <<>>]
STR_UnknownField == <<"Unknown">>

Init ==
    /\ csv = NoFile
    /\ email_html = NoReport
    /\ has_new_jobs = "absent"
    /\ pc = "idle"
    /\ clock = 0
    /\ existing_ids = {}
    /\ all_jobs = <<>>
    /\ new_jobs = <<>>
    /\ response = NoResponse
    /\ job_ids = <<>>
    /\ i = 1
    /\ jobs = <<>>
    /\ title = Unbound
    /\ company = Unbound
    /\ location = Unbound
    /\ card_meta = UnboundMeta
    /\ prev_scraped = NoRun
    /\ job_details = Unbound
    /\ salary = Unbound
    /\ experience = Unbound

\* description[:3000]
DescriptionLimit == 3000
truncate(text, n) == SubSeq(text, 1, IF Len(text) < n THEN Len(text) ELSE n)

STR_DetailSalary == <<"$","9","0","K","/","y","r">>

\* lines 278-296: the dict appended for one card
make_job(job_id, job_title, job_company, job_location, salary_meta, description) ==
    [job_id |-> job_id,
     job_title |-> job_title,
     company |-> job_company,
     location |-> job_location,
     experience_years |-> parse_experience(description),
     salary |-> parse_salary(salary_meta, description),
     description |-> truncate(description, DescriptionLimit),
     job_url |-> job_url(job_id),
     comment |-> NoComment]

\* ------------------------------------------------------------------ main()
\* lines 478-486: a missing LI_AT_COOKIE or GEMINI_API_KEY ends the run
MissingConfig ==
    /\ pc \in {"idle", "done", "crashed"}
    /\ clock < MaxRuns
    /\ \E cookie_set, key_set \in BOOLEAN :
          /\ ~cookie_set \/ ~key_set
          /\ clock' = clock + 1
          /\ pc' = "done"
          /\ existing_ids' = {}
          /\ all_jobs' = <<>>
          /\ new_jobs' = <<>>
          /\ response' = NoResponse
          /\ job_ids' = <<>> /\ i' = 1 /\ jobs' = <<>>
          /\ title' = Unbound /\ company' = Unbound /\ location' = Unbound
          /\ card_meta' = UnboundMeta
          /\ UNCHANGED <<extract_io, files, prev_scraped>>

\* lines 478-490: both secrets are set; existing_ids is read from jobs.csv
LoadExisting ==
    /\ pc \in {"idle", "done", "crashed"}
    /\ clock < MaxRuns
    /\ clock' = clock + 1
    /\ pc' = "scrape"
    /\ existing_ids' = load_existing_job_ids(csv)
    /\ all_jobs' = <<>>
    /\ new_jobs' = <<>>
    /\ response' = NoResponse
    /\ job_ids' = <<>> /\ i' = 1 /\ jobs' = <<>>
    /\ title' = Unbound /\ company' = Unbound /\ location' = Unbound
    /\ card_meta' = UnboundMeta
    /\ UNCHANGED <<extract_io, files, prev_scraped>>

\* scrape_jobs, lines 174-217: the ids of the cards in the page; no card at
\* all makes scrape_jobs return []
ScrapeBegin ==
    /\ pc = "scrape"
    /\ \E ids \in SeqsUpTo(Ids, MaxCards) :
          /\ i' = 1
          /\ jobs' = <<>>
          /\ IF ids = <<>>
             THEN pc' = "dedup" /\ all_jobs' = <<>> /\ job_ids' = <<>>
             ELSE pc' = "scrape_loop" /\ all_jobs' = all_jobs /\ job_ids' = ids
    /\ UNCHANGED <<extract_io, files, clock, existing_ids, new_jobs, response, title, company,
                   location, card_meta, prev_scraped>>

\* scrape_jobs, lines 220-296: one iteration of the loop over job_ids
ScrapeCard(outcomes) ==
    /\ pc = "scrape_loop"
    /\ i <= Len(job_ids)
    /\ \E o \in outcomes :
          LET job_id == job_ids[i]
              failed == o.fail \notin {"none", "no_card"}
              \* the assignments of the try block that were reached
              title1 == IF o.fail = "query" THEN title
                        ELSE IF o.title_el THEN TitleOf(job_id) ELSE STR_UnknownField
              company1 == IF o.fail \in {"query", "company"} THEN company
                          ELSE IF o.company_el THEN CompanyOf(job_id) ELSE STR_UnknownField
              card_meta1 == IF o.fail \in {"query", "company", "meta"} THEN card_meta
                            ELSE IF o.meta_n = 0 THEN <<>> ELSE <<LocationOf(job_id)>>
              location1 == IF o.fail \in {"query", "company", "meta"} THEN location
                           ELSE IF card_meta1 # <<>> THEN card_meta1[1] ELSE STR_UnknownField
              \* the except block: `x if 'x' in dir() else default`
              title2 == IF failed /\ title1 = Unbound THEN STR_UnknownField ELSE title1
              company2 == IF failed /\ company1 = Unbound THEN STR_UnknownField ELSE company1
              location2 == IF failed /\ location1 = Unbound THEN STR_UnknownField ELSE location1
              card_meta2 == IF failed /\ card_meta1 = UnboundMeta THEN <<>> ELSE card_meta1
              description == IF failed \/ ~o.desc THEN NoText ELSE DescriptionOf(job_id)
              salary_from_detail == IF failed \/ ~o.sal_detail THEN NoText ELSE STR_DetailSalary
              salary_meta == card_meta2 \o (IF salary_from_detail # NoText
                                            THEN <<salary_from_detail>> ELSE <<>>)
          IN
          IF o.fail = "no_card"
          THEN /\ i' = i + 1
               /\ UNCHANGED <<jobs, title, company, location, card_meta>>
          ELSE /\ i' = i + 1
               /\ title' = title2
               /\ company' = company2
               /\ location' = location2
               /\ card_meta' = card_meta2
               /\ jobs' = Append(jobs, make_job(job_id, title2, company2, location2,
                                                salary_meta, description))
    /\ UNCHANGED <<extract_io, files, pc, clock, existing_ids, all_jobs, new_jobs, response,
                   job_ids, prev_scraped>>

\* scrape_jobs, lines 298-304: the loop is over; postings with no title and
\* no description are filtered out and the rest is returned to main
ScrapeReturn ==
    /\ pc = "scrape_loop"
    /\ i > Len(job_ids)
    /\ all_jobs' = valid_jobs(jobs)
    /\ pc' = "dedup"
    /\ job_ids' = <<>> /\ i' = 1 /\ jobs' = <<>>
    /\ title' = Unbound /\ company' = Unbound /\ location' = Unbound
    /\ card_meta' = UnboundMeta
    /\ UNCHANGED <<extract_io, files, clock, existing_ids, new_jobs, response, prev_scraped>>

\* lines 497-499
Deduplicate ==
    /\ pc = "dedup"
    /\ new_jobs' = filter_new(all_jobs, existing_ids)
    /\ pc' = "deduped"
    /\ UNCHANGED <<extract_io, files, clock, existing_ids, all_jobs, response, scrape_locals,
                   prev_scraped>>

\* lines 501-507: nothing new
NoNewJobs ==
    /\ pc = "deduped"
    /\ new_jobs = <<>>
    /\ email_html' = generate_email_html(<<>>)
    /\ has_new_jobs' = "false"
    /\ pc' = "done"
    /\ prev_scraped' = ids_of(all_jobs)
    /\ UNCHANGED <<extract_io, csv, clock, existing_ids, all_jobs, new_jobs, response, scrape_locals>>

\* line 511: generate_comments with a reply out of responses; an exception
\* that leaves generate_comments ends the run (main has no handler)
GenerateComments(responses) ==
    /\ pc = "deduped"
    /\ new_jobs # <<>>
    /\ \E r \in responses :
          LET result == generate_comments(new_jobs, r) IN
          /\ response' = r
          /\ IF result.raised
             THEN pc' = "crashed" /\ new_jobs' = new_jobs
             ELSE pc' = "save" /\ new_jobs' = result.jobs
    /\ UNCHANGED <<extract_io, files, clock, existing_ids, all_jobs, scrape_locals, prev_scraped>>

\* line 515
SaveToCsv ==
    /\ pc = "save"
    /\ csv' = save_to_csv(csv, new_jobs, timestamp_of(clock))
    /\ pc' = "email"
    /\ UNCHANGED <<extract_io, email_html, has_new_jobs, clock, existing_ids, all_jobs, new_jobs,
                   response, scrape_locals, prev_scraped>>

\* lines 519-524: the report, then the flag
WriteReport ==
    /\ pc = "email"
    /\ email_html' = generate_email_html(new_jobs)
    /\ has_new_jobs' = "true"
    /\ pc' = "done"
    /\ prev_scraped' = ids_of(all_jobs)
    /\ UNCHANGED <<extract_io, csv, clock, existing_ids, all_jobs, new_jobs, response, scrape_locals>>

Next ==
    \/ MissingConfig
    \/ LoadExisting
    \/ ScrapeBegin
    \/ ScrapeCard(MainOutcomes)
    \/ ScrapeReturn
    \/ Deduplicate
    \/ NoNewJobs
    \/ GenerateComments(MainResponses)
    \/ SaveToCsv
    \/ WriteReport

Spec == Init /\ [][Next]_vars

\* ---------------------------------------------- scrape_jobs on its own
\* scrape_jobs in the first run, with every outcome of a card
InitScrape ==
    /\ csv = NoFile
    /\ email_html = NoReport
    /\ has_new_jobs = "absent"
    /\ pc = "scrape"
    /\ clock = 1
    /\ existing_ids = {}
    /\ all_jobs = <<>>
    /\ new_jobs = <<>>
    /\ response = NoResponse
    /\ job_ids = <<>>
    /\ i = 1
    /\ jobs = <<>>
    /\ title = Unbound
    /\ company = Unbound
    /\ location = Unbound
    /\ card_meta = UnboundMeta
    /\ prev_scraped = NoRun
    /\ job_details = Unbound
    /\ salary = Unbound
    /\ experience = Unbound

NextScrape ==
    \/ ScrapeBegin
    \/ ScrapeCard(CardOutcomes)
    \/ ScrapeReturn

SpecScrape == InitScrape /\ [][NextScrape]_vars

\* ------------------------------------------ generate_comments on its own
\* the posting of a card that was scraped whole
Posting(id) ==
    make_job(id, TitleOf(id), CompanyOf(id), LocationOf(id), <<LocationOf(id)>>,
             DescriptionOf(id))

\* generate_comments in the first run, for every batch of up to MaxCards new
\* postings and every reply of up to MaxRecords records
InitComments ==
    /\ csv = NoFile
    /\ email_html = NoReport
    /\ has_new_jobs = "absent"
    /\ pc = "deduped"
    /\ clock = 1
    /\ existing_ids = {}
    /\ \E ids \in SeqsUpTo(Ids, MaxCards) :
          /\ ids # <<>>
          /\ all_jobs = [k \in 1..Len(ids) |-> Posting(ids[k])]
          /\ new_jobs = all_jobs
    /\ response \in Responses(MaxRecords)
    /\ job_ids = <<>>
    /\ i = 1
    /\ jobs = <<>>
    /\ title = Unbound
    /\ company = Unbound
    /\ location = Unbound
    /\ card_meta = UnboundMeta
    /\ prev_scraped = NoRun
    /\ job_details = Unbound
    /\ salary = Unbound
    /\ experience = Unbound

NextComments == GenerateComments({response})

SpecComments == InitComments /\ [][NextComments]_vars

\* ------------------------------------------- the field extractors on their own
\* card metadata strings: with and without a dollar amount
META_Remote ==
    <<"R","e","m","o","t","e">>
META_Salary ==
    <<"$","9","0","K","/","y","r">>
META_SalaryRange ==
    <<"P","a","y"," ","$","1","2","0","K","/","y","r"," ","-"," ","$","1","5","0","K","/","y",
    "r">>
META_BareDollar ==
    <<"$"," ","n","e","g","o","t","i","a","b","l","e">>

MetaTexts == {META_Remote, META_Salary, META_SalaryRange, META_BareDollar}

\* descriptions: one per experience pattern, with and without a dollar amount
DESC_Scenario ==
    <<"5","+"," ","y","e","a","r","s"," ","o","f"," ","p","r","o","f","e","s","s","i","o","n",
    "a","l"," ","e","x","p","e","r","i","e","n","c","e"," ","r","e","q","u","i","r","e","d">>
DESC_Single ==
    <<"3"," ","y","e","a","r","s"," ","e","x","p","e","r","i","e","n","c","e">>
DESC_Range ==
    <<"2","-","4"," ","y","e","a","r","s"," ","e","x","p","e","r","i","e","n","c","e">>
DESC_NumberBefore ==
    <<"P","y","t","h","o","n"," ","3","\n","5"," ","y","e","a","r","s"," ","e","x","p","e","r",
    "i","e","n","c","e">>
DESC_Salary ==
    <<"p","a","y"," ","$","1","0","0",",","0","0","0",".","5","0"," ","t","o"," ","$","1","2",
    "0",",","0","0","0">>
DESC_Minimum ==
    <<"M","i","n","i","m","u","m"," ","o","f"," ","3"," ","y","e","a","r","s">>
DESC_AtLeast ==
    <<"a","t"," ","l","e","a","s","t"," ","2"," ","y","e","a","r","s">>
DESC_BareRange ==
    <<"3","-","5"," ","y","e","a","r","s">>
DESC_BarePlus ==
    <<"7","+"," ","y","e","a","r","s">>
DESC_Nothing ==
    <<"g","r","e","a","t"," ","t","e","a","m">>
DESC_Mixed ==
    <<"A","t"," ","l","e","a","s","t"," ","2"," ","y","e","a","r","s",","," ","3"," ","y","e",
    "a","r","s"," ","e","x","p","e","r","i","e","n","c","e"," ","a"," ","p","l","u","s",","," ",
    "$","7","0","K">>
DESC_Empty ==
    <<>>

Descriptions ==
    {DESC_Scenario, DESC_Single, DESC_Range, DESC_NumberBefore,
     DESC_Salary, DESC_Minimum, DESC_AtLeast, DESC_BareRange,
     DESC_BarePlus, DESC_Nothing, DESC_Mixed, DESC_Empty}

\* lines 278-283 for every metadata list of up to MaxMeta strings and every
\* description
InitExtract ==
    /\ csv = NoFile
    /\ email_html = NoReport
    /\ has_new_jobs = "absent"
    /\ pc = "extract"
    /\ clock = 1
    /\ existing_ids = {}
    /\ all_jobs = <<>>
    /\ new_jobs = <<>>
    /\ response = NoResponse
    /\ job_ids = <<>>
    /\ i = 1
    /\ jobs = <<>>
    /\ title = Unbound
    /\ company = Unbound
    /\ location = Unbound
    /\ card_meta \in SeqsUpTo(MetaTexts, MaxMeta)
    /\ prev_scraped = NoRun
    /\ job_details \in Descriptions
    /\ salary = Unbound
    /\ experience = Unbound

\* line 280: salary = parse_salary(salary_meta, description)
ParseSalary ==
    /\ pc = "extract"
    /\ salary = Unbound
    /\ salary' = parse_salary(card_meta, job_details)
    /\ UNCHANGED <<files, pc, clock, existing_ids, all_jobs, new_jobs, response,
                   scrape_locals, prev_scraped, job_details, experience>>

\* line 283: experience = parse_experience(description)
ParseExperience ==
    /\ pc = "extract"
    /\ experience = Unbound
    /\ experience' = parse_experience(job_details)
    /\ UNCHANGED <<files, pc, clock, existing_ids, all_jobs, new_jobs, response,
                   scrape_locals, prev_scraped, job_details, salary>>

NextExtract ==
    \/ ParseSalary
    \/ ParseExperience

SpecExtract == InitExtract /\ [][NextExtract]_vars

\* =================================================================== claims
\* helpers of the properties
IdA == <<"1","0","0">>
IdB == <<"2","0","0">>

\* the reply parsed: json.loads returned a value
Parseable(r) == r.kind = "text" /\ ~json_loads_raises(strip_fences(r))

\* the call failed or the reply could not be parsed
ServiceFailed(r) == r.kind = "api_error" \/ (r.kind = "text" /\ json_loads_raises(strip_fences(r)))

\* the reply parsed to a list of records that each carry a job_id and, where
\* they have bullets, a list of them
WellFormed(r) ==
    /\ Parseable(r)
    /\ r.shape = "list"
    /\ \A k \in 1..Len(r.items) :
          r.items[k].job_id # MissingId /\ r.items[k].bullets # NullBullets

HasRecord(r, id) == \E k \in 1..Len(r.items) : r.items[k].job_id = id

LastRecord(r, id) ==
    r.items[CHOOSE k \in 1..Len(r.items) :
                /\ r.items[k].job_id = id
                /\ \A m \in (k + 1)..Len(r.items) : r.items[m].job_id # id]

RatingIn(rec) == IF rec.rating = MissingRating THEN STR_Unknown ELSE rec.rating
BulletsIn(rec) == IF rec.bullets = MissingBullets THEN <<>> ELSE rec.bullets

\* the lines of a text, split at every "\n"
SplitLines(text) ==
    LET breaks == {k \in 1..Len(text) : text[k] = "\n"}
        break(n) == IF n = 0 THEN 0
                    ELSE IF n > Cardinality(breaks) THEN Len(text) + 1
                    ELSE CHOOSE k \in breaks : Cardinality({m \in breaks : m <= k}) = n
    IN [n \in 1..(Cardinality(breaks) + 1) |-> SubSeq(text, break(n - 1) + 1, break(n) - 1)]

\* the lines a comment with this rating and these bullets has
CommentLines(rating, bullets) ==
    <<STR_RatingPrefix \o rating>>
    \o (IF bullets = <<>> THEN <<NoText>>
        ELSE [k \in 1..Len(bullets) |-> STR_BulletMarker \o bullets[k]])

\* job without its comment
Uncommented(job) == [job EXCEPT !.comment = NoComment]

\* the batch generate_comments was called with
Batch == filter_new(all_jobs, existing_ids)

RatingRoundTrip ==
    (pc = "save" /\ WellFormed(response)) =>
        \A k \in 1..Len(new_jobs) :
            (/\ HasRecord(response, new_jobs[k].job_id)
             /\ Len(BulletsIn(LastRecord(response, new_jobs[k].job_id))) = 3)
            => extract_rating(new_jobs[k].comment)
                 = RatingIn(LastRecord(response, new_jobs[k].job_id))

JobIdColumn == 2
CommentColumn == 8
TimestampColumn == 1

\* the last n lines of jobs.csv
LastLines(n) == SubSeq(csv.lines, Len(csv.lines) - n + 1, Len(csv.lines))

StoredIds == {csv.lines[k][JobIdColumn] : k \in 2..Len(csv.lines)}

\* C5: the new postings are exactly the scraped postings whose id is not in
\* the seen-set, in their original order, and the seen-set is the set of the
\* ids in the store (empty when there is no store).
DedupFilterExact ==
    pc = "deduped" =>
        LET kept == {k \in 1..Len(all_jobs) : all_jobs[k].job_id \notin StoredIds}
            nth(n) == CHOOSE k \in kept : Cardinality({m \in kept : m <= k}) = n
        IN /\ existing_ids = StoredIds
           /\ ~csv.exists => existing_ids = {}
           /\ Len(new_jobs) = Cardinality(kept)
           /\ \A n \in 1..Len(new_jobs) : new_jobs[n] = all_jobs[nth(n)]

\* the store holds "100", the page gave "100" and "200": only "200" is new
DedupFilterWitness ==
    /\ pc = "deduped"
    /\ existing_ids = {IdA}
    /\ Len(all_jobs) = 2
    /\ all_jobs[1].job_id = IdA /\ all_jobs[2].job_id = IdB
    /\ Len(new_jobs) = 1 /\ new_jobs[1].job_id = IdB

\* ------------------------------------------------------------------- C6
\* C6 as stated: the filter applied again to the same postings with the same
\* seen-set yields nothing.
FilterTwiceSameSeenSet ==
    pc = "deduped" => filter_new(all_jobs, existing_ids) = <<>>

\* C6 amended: a run that scrapes only postings an earlier, finished run
\* scraped finds nothing new, its seen-set being read from the store the
\* earlier run appended to.
SecondRunFindsNothing ==
    (pc = "deduped" /\ prev_scraped # NoRun /\ ids_of(all_jobs) \subseteq prev_scraped)
        => new_jobs = <<>>

\* a second run has scraped two postings that the run before it scraped
SecondRunWitness ==
    /\ pc = "deduped"
    /\ prev_scraped = {IdA, IdB}
    /\ Len(all_jobs) = 2
    /\ all_jobs[1].job_id = IdA /\ all_jobs[2].job_id = IdB
    /\ new_jobs = <<>>

\* ------------------------------------------------------------------- C7
\* C7: no two rows of the store carry the same job_id.
UniqueJobIds ==
    \A k, m \in 2..Len(csv.lines) :
        k # m => csv.lines[k][JobIdColumn] # csv.lines[m][JobIdColumn]

\* ------------------------------------------------------------------- C8
IsPrefix(p, q) == Len(p) <= Len(q) /\ SubSeq(q, 1, Len(p)) = p

\* the header is the first line of the file and no other
HeaderOnce(file) ==
    IF file.exists
    THEN /\ Len(file.lines) >= 1
         /\ file.lines[1] = CSV_HEADERS
         /\ \A k \in 2..Len(file.lines) : file.lines[k] # CSV_HEADERS
    ELSE file.lines = <<>>

\* C8: every step leaves the lines of the store in place as a prefix of the
\* new store, the header is its first line and no other, and the store
\* changes only in the save step of a run that found new postings (so not in
\* a run without new postings or one that stops on missing configuration).
AppendOnly ==
    [][/\ IsPrefix(csv.lines, csv'.lines)
       /\ csv.exists => csv'.exists
       /\ HeaderOnce(csv')
       /\ csv' # csv => (pc = "save" /\ new_jobs # <<>>)]_vars

\* the store holds rows of two runs
AppendOnlyWitness ==
    /\ csv.exists
    /\ \E k, m \in 2..Len(csv.lines) :
          k < m /\ csv.lines[k][TimestampColumn] # csv.lines[m][TimestampColumn]

\* ------------------------------------------------------------------- C9
\* C9: after every run the flag holds "true" if the run found at least one
\* new posting and "false" otherwise.
FlagTellsRun ==
    pc = "done" => has_new_jobs = (IF new_jobs # <<>> THEN "true" ELSE "false")

\* ------------------------------------------------------------------ C10
\* C10: a recorded posting holds, in title, company and location, either the
\* value of its own card or "Unknown", never the value of another posting.
OwnFieldsOnly ==
    \A k \in 1..Len(jobs) :
        /\ jobs[k].job_title \in {TitleOf(jobs[k].job_id), STR_UnknownField}
        /\ jobs[k].company \in {CompanyOf(jobs[k].job_id), STR_UnknownField}
        /\ jobs[k].location \in {LocationOf(jobs[k].job_id), STR_UnknownField}

\* ------------------------------------------------------------------ C11
\* the least a dollar amount is: "$" and a digit or a thousands separator
DollarAt(text, p) ==
    p < Len(text) /\ text[p] = "$" /\ text[p + 1] \in (Digits \cup {","})

HasAmount(text) == \E p \in 1..Len(text) : DollarAt(text, p)

\* text holds s from its first dollar amount on
IsFirstAmountOf(s, text) ==
    /\ HasAmount(text)
    /\ starts_at(text, s, Min({p \in 1..Len(text) : DollarAt(text, p)}))
    /\ Len(s) >= 2

MetaWithAmount == {k \in 1..Len(card_meta) : HasAmount(card_meta[k])}

\* C11: parse_salary returns the match of the first metadata element, in
\* sequence order, that holds a dollar amount, whatever the description
\* holds; the first match of the description only when no metadata element
\* holds one; and "Not listed" when neither does.
SalaryPriority ==
    salary # Unbound =>
        IF MetaWithAmount # {}
        THEN /\ IsFirstAmountOf(salary, card_meta[Min(MetaWithAmount)])
             /\ salary = salary_match(card_meta[Min(MetaWithAmount)])
        ELSE IF HasAmount(job_details)
        THEN /\ IsFirstAmountOf(salary, job_details)
             /\ salary = salary_match(job_details)
        ELSE salary = STR_NotListed

\* the second metadata element is the first with an amount, the description
\* holds another amount, and the amount of the metadata was returned
SalaryPriorityWitness ==
    /\ salary # Unbound
    /\ Len(card_meta) = 2
    /\ MetaWithAmount = {2}
    /\ HasAmount(job_details)
    /\ salary # salary_match(job_details)
    /\ salary = <<"$","9","0","K","/","y","r">>

\* ------------------------------------------------------------------ C12
STR_YearsExperience == <<" ","y","e","a","r","s"," ","e","x","p","e","r","i","e","n","c","e">>
STR_Year == <<"y","e","a","r">>

\* where the number that ends at e starts
NumberStart(text, e) == Min({s \in 1..e : \A k \in s..e : text[k] \in Digits})
NumberEndingAt(text, e) == SubSeq(text, NumberStart(text, e), e)

\* the places of text where "<number> years experience" has its " years"
PhrasePlaces(text) ==
    {p \in 2..Len(text) : /\ starts_at(lower(text), STR_YearsExperience, p)
                          /\ text[p - 1] \in Digits}

YearWords(text) == {p \in 1..Len(text) : starts_at(lower(text), STR_Year, p)}

\* the number before the phrase at p is the upper end of "<low>-<high>"
IsRangeAt(text, p) ==
    LET s == NumberStart(text, p - 1) IN
    s > 2 /\ text[s - 1] = "-" /\ text[s - 2] \in Digits

\* text speaks of years once, in a phrase "<number> years experience"
OnePhrase(text) ==
    Cardinality(PhrasePlaces(text)) = 1 /\ Cardinality(YearWords(text)) = 1

\* C12: a text with a single "N years experience" phrase yields "N+ years", a
\* text with a single range "N-M years experience" yields "N-M years", the
\* text "5+ years of professional experience required" yields "5+ years", and
\* a text that no pattern can match (it never says "year") yields
\* "Not specified".
ExperienceByPhrase ==
    experience # Unbound =>
        /\ OnePhrase(job_details) =>
              LET p == CHOOSE q \in PhrasePlaces(job_details) : TRUE
                  high == NumberEndingAt(job_details, p - 1)
                  low == NumberEndingAt(job_details, NumberStart(job_details, p - 1) - 2)
              IN IF IsRangeAt(job_details, p)
                 THEN experience = low \o <<"-">> \o high \o STR_Years
                 ELSE experience = high \o <<"+">> \o STR_Years
        /\ job_details = DESC_Scenario => experience = <<"5","+">> \o STR_Years
        /\ YearWords(job_details) = {} => experience = STR_NotSpecified

====
